---- MODULE Spec2Model ----
(***************************************************************************)
(* State-machine model of js/main.js: the load-and-bind pass, the frame    *)
(* loop (handleHover, smoothLiftUpdate, syncHotspotLift), the connection   *)
(* arcs and the pointer / key / overlay listeners.                         *)
(*                                                                         *)
(* Numbers.  Lengths are integers in world units, lifts are integers in    *)
(* lift quanta.  A product with a rational factor is rounded toward zero   *)
(* to the grid (MulQ), which stands for the rounding of the double         *)
(* product in the program.  Indices keep the program's 0-based values, so  *)
(* element i of a program array is seq[i + 1] here; null is -1.            *)
(***************************************************************************)
EXTENDS Integers, Sequences, FiniteSets, TLC

null == -1
undefined == -999

Max(a, b) == IF a >= b THEN a ELSE b
Min(a, b) == IF a <= b THEN a ELSE b
Abs(a) == IF a >= 0 THEN a ELSE -a

\* v * num / den, rounded toward zero
MulQ(v, num, den) ==
  IF v >= 0 THEN (v * num) \div den ELSE -(((-v) * num) \div den)

(***************************************************************************)
(* Bounds of the model.                                                    *)
(***************************************************************************)
\* CONFIG.interaction.hoverCooldownFrames is drawn from 1..MaxCooldownFrames
MaxCooldownFrames == 2
\* clock readings are drawn from 0..MaxClock (quarter periods of the idle wave)
MaxClock == 1
\* SpecDecay runs at most MaxQuietTicks ticks in a row without a hovered dot
MaxQuietTicks == 5
\* fixed-point scale and number of series terms of exp(-x)
ExpScale == 1000000
ExpTerms == 14

(***************************************************************************)
(* Configuration values read from CONFIG (settings.json).                  *)
(***************************************************************************)
MAP_OFFSET_X == 0
DOT_BASE_Y == 0
SPACING == 10
DOT_HEIGHT == 4
radius == 10
threshold == 1
idleAmplitude == 1
idlePhaseStep == 1
lineEnabled == TRUE
drawSequential == TRUE

\* CONFIG.hover.maxLift and CONFIG.hover.easing of settings.json; a factor is
\* a fraction <<numerator, denominator>>
DefaultHover == [maxLift |-> 16, easing |-> <<1, 2>>]

\* CONFIG.interaction.hoverFalloff of settings.json
DefaultFalloff == <<1, 2>>

\* CONFIG.hotspots.connectionLine of settings.json: the base style of every
\* arc.  segments is kept in halves (4 is 2.0), so that Math.floor has an
\* argument between the integers to work on.
DefaultLine ==
  [color |-> 1, opacity |-> 1, arcHeight |-> 5, segments |-> 4,
   thickness |-> 1, radialSegments |-> 6, heightOffset |-> 1]

\* ids are strings: sequences of character codes (65..90 = A..Z, 97..122 = a..z)
IdA == <<65>>
IdB == <<66>>
IdC == <<67>>
IdZ == <<90>>
Idb == <<98>>
Idc == <<99>>

\* CONFIG.hotspots.connectionPairs of settings.json: two pairs that share the
\* endpoint A, and one pair whose toId matches no hotspot
NoStyle ==
  [color |-> undefined, opacity |-> undefined, arcHeight |-> undefined,
   segments |-> undefined, thickness |-> undefined,
   radialSegments |-> undefined, heightOffset |-> undefined]

Pair(from, to, style) == [fromId |-> from, toId |-> to] @@ style

DefaultPairs ==
  << Pair(IdA, IdB, NoStyle),
     Pair(IdA, Idc, [NoStyle EXCEPT !.arcHeight = 7, !.segments = 6]),
     Pair(IdA, IdZ, NoStyle) >>

\* a preset name that is not given (layout.active undefined, preset.geometry
\* undefined)
noName == "<undefined>"

\* {}: a preset that defines no field.  Scales and ratios are kept in
\* thousandths (1000 is 1.0), segment counts in halves (17 is 8.5).
EmptyPreset ==
  [geometry |-> noName,
   topScale |-> undefined, bottomScale |-> undefined,
   heightScale |-> undefined, radialSegments |-> undefined,
   domeHeightRatio |-> undefined, domeSegments |-> undefined,
   bodyHeightRatio |-> undefined, bodyTopScale |-> undefined,
   bodyBottomScale |-> undefined,
   ringScale |-> undefined, ringThickness |-> undefined,
   ringOffset |-> undefined,
   tier1HeightRatio |-> undefined, tier2HeightRatio |-> undefined,
   tier1RadiusScale |-> undefined, tier2RadiusScale |-> undefined,
   tipRadiusScale |-> undefined]

\* CONFIG.hotspots.layout of settings.json: the classic preset is the active
\* one and leaves every scale at its default
DefaultLayout ==
  [active |-> "classic",
   presets |-> [classic |-> [EmptyPreset EXCEPT !.domeHeightRatio = 300]]]

\* CONFIG.dots.radius * CONFIG.hotspots.radiusMultiplier and
\* CONFIG.dots.height * CONFIG.hotspots.heightMultiplier, in thousandths of a
\* world unit
baseRadius == 1500
baseHeight == DOT_HEIGHT * 1500
\* CONFIG.hotspots.radialSegments and CONFIG.hotspots.dome.segments (in
\* halves, as the segments of the arcs) and CONFIG.hotspots.dome.heightRatio
\* (in thousandths)
hotspotRadialSegments == 24
domeSegmentsDefault == 12
domeHeightRatioDefault == 350

(***************************************************************************)
(* Source data: the files fetched by loadMapData.                          *)
(***************************************************************************)
\* HOTSPOT_DATA_SOURCES: one entry per source, with the records of its file
HOTSPOT_DATA_SOURCES ==
  << [type |-> "global",
      data |-> << [id |-> IdA, lat |-> 0, lon |-> 0],
                  [id |-> Idb, lat |-> 0, lon |-> 18] >>],
     [type |-> "regional",
      data |-> << [id |-> IdC, lat |-> 18, lon |-> 18] >>] >>

\* MAP_DOT_SOURCE: the point lists the file may hold
DotFiles == { << <<0, 0>>, <<1, 0>>, <<1, 1>> >> }

\* targets the pointer ray can be aimed at: no dot (null) or dot index 0..2
PointerTargets == {null, 0, 1, 2}

VARIABLES
  CONFIG,             \* the settings that are drawn at start-up
  mapDataRequested, mapStarted, animationStarted,
  sourceState,        \* per hotspot source: "idle", "pending", "ok", "failed"
  dotSourceState,     \* the point source: "idle", "pending", "ok", "failed"
  diagnostics,        \* number of console.error diagnostics of loadMapData
  HOTSPOTS,           \* raw hotspot records
  dotMesh, hoverProxyMesh,   \* FALSE is null
  dotPositions,       \* dot records
  hotspotMeshes,      \* << [type, matrices] >> in insertion order
  hotspotData,        \* bound hotspot records
  hotspotLine,        \* << >> (null) or << geometry of the sequential arc >>
  hotspotPairLines,   \* << [fromIndex, toIndex, cfg, material, geometry] >>
  hoveredInstanceId, hoverCooldown, liftActive,
  mouse,              \* the latest pointer sample
  activeHotspot,      \* null or the index of the selected hotspot record
  mapActive, isPointerDown,
  lastClickToggled,   \* observer: the latest pointer event was a click on the
                      \*   selected hotspot
  lastHit,            \* observer: hits of the latest handleHover (null: none)
  missStreak,         \* observer: consecutive handleHover runs without a hit
  baseTarget,         \* observer: each targetLift at the end of the latest
                      \*   tick that had a hovered dot (0 before the first)
  quietTicks,         \* observer: ticks since then, none with a hovered dot
  ranTicks            \* observer: those of them on which the engine ran

loadVars == <<mapDataRequested, mapStarted, animationStarted, sourceState,
              dotSourceState, diagnostics, HOTSPOTS>>
sceneVars == <<dotMesh, hoverProxyMesh, dotPositions, hotspotMeshes,
               hotspotData, hotspotLine, hotspotPairLines>>
hoverVars == <<hoveredInstanceId, hoverCooldown, liftActive>>
pointerVars == <<mouse, activeHotspot, mapActive, isPointerDown,
                 lastClickToggled>>
observerVars == <<lastHit, missStreak>>
decayVars == <<baseTarget, quietTicks, ranTicks>>
vars == <<CONFIG, loadVars, sceneVars, hoverVars, pointerVars, observerVars,
          decayVars>>

\* const { radius, maxLift } = CONFIG.hover
maxLift == CONFIG.hover.maxLift

\* const { easing, threshold } = CONFIG.hover
easingNum == CONFIG.hover.easing[1]
easingDen == CONFIG.hover.easing[2]

\* CONFIG.interaction.hoverFalloff
hoverFalloffNum == CONFIG.hoverFalloff[1]
hoverFalloffDen == CONFIG.hoverFalloff[2]

\* const baseCfg = CONFIG.hotspots.connectionLine
baseCfg == CONFIG.connectionLine

\* const pairs = CONFIG.hotspots.connectionPairs
connectionPairs == CONFIG.connectionPairs

\* Math.floor of a value kept in halves
Floor(h) == h \div 2

(***************************************************************************)
(* World positions and arc geometry.                                       *)
(***************************************************************************)
getCylinderCenterY(height, lift) == DOT_BASE_Y + height \div 2 + lift

getMapWorldX(x) == x * SPACING + MAP_OFFSET_X

\* sin(n * pi / 2)
SinQuarter(n) == CASE n % 4 = 1 -> 1 [] n % 4 = 3 -> -1 [] OTHER -> 0

\* The idle wave: idle.speed * elapsedTime and animationPhase are counted in
\* quarter periods, so the sine is exact.
getHotspotIdleLift(hs, elapsedTime, cfg) ==
  IF ~cfg.idleEnabled THEN 0
  ELSE SinQuarter(elapsedTime + hs.animationPhase) * idleAmplitude

getHotspotWorldPosition(hs, dots) ==
  LET p == dots[hs.dotIndex + 1]
  IN [x |-> getMapWorldX(p.x),
      y |-> getCylinderCenterY(hs.height, p.lift + hs.idleLift)
              + baseCfg.heightOffset,
      z |-> -p.y * SPACING]

\* One sample of the bow from a to b at t = s / segments.  The coordinates are
\* kept times `segments`; the term sin(pi * t) * arcHeight is kept by its
\* arguments.
ArcPoint(a, b, s, segments, arcHeight) ==
  [x |-> a.x * (segments - s) + b.x * s,
   y |-> a.y * (segments - s) + b.y * s,
   z |-> a.z * (segments - s) + b.z * s,
   den |-> segments,
   bow |-> <<s, segments, arcHeight>>]

collectArcPointsBetween(a, b, lineCfg) ==
  LET segments == Max(1, Floor(lineCfg.segments))
  IN [k \in 1..(segments + 1) |->
        ArcPoint(a, b, k - 1, segments, lineCfg.arcHeight)]

\* mutant of ArcLeg: every leg starts at s = 0
ArcLegFromZero(data, dots, i, segments) ==
  LET a == getHotspotWorldPosition(data[i + 1], dots)
      b == getHotspotWorldPosition(data[i + 2], dots)
  IN [k \in 1..(segments + 1) |->
        ArcPoint(a, b, k - 1, segments, baseCfg.arcHeight)]

\* the samples of leg i (from record i to record i + 1): the first leg starts
\* at s = 0, every later leg at s = 1
ArcLeg(data, dots, i, segments) ==
  LET a == getHotspotWorldPosition(data[i + 1], dots)
      b == getHotspotWorldPosition(data[i + 2], dots)
      start == IF i = 0 THEN 0 ELSE 1
  IN [k \in 1..(segments - start + 1) |->
        ArcPoint(a, b, start + k - 1, segments, baseCfg.arcHeight)]

RECURSIVE ArcLegsFrom(_, _, _, _)
ArcLegsFrom(data, dots, i, segments) ==
  IF i >= Len(data) - 1 THEN <<>>
  ELSE ArcLeg(data, dots, i, segments) \o ArcLegsFrom(data, dots, i + 1, segments)

collectHotspotArcPoints(data, dots) ==
  ArcLegsFrom(data, dots, 0, Max(1, Floor(baseCfg.segments)))

\* thickness is floored at the smallest positive radius of the grid
buildArcTubeGeometry(points, lineCfg) ==
  [points |-> points,
   tubularSegments |-> Max(2, Len(points) * 2),
   radius |-> Max(1, lineCfg.thickness),
   radialSegments |-> Max(3, lineCfg.radialSegments)]

isSequentialConnectionEnabled == lineEnabled /\ drawSequential

\* a ?? b
Coalesce(a, b) == IF a = undefined THEN b ELSE a

ToLowerCode(c) == IF c >= 65 /\ c <= 90 THEN c + 32 ELSE c
ToLowerCase(id) == [k \in 1..Len(id) |-> ToLowerCode(id[k])]

RECURSIVE FindIndexFrom(_, _, _)
FindIndexFrom(data, needle, i) ==
  IF i >= Len(data) THEN -1
  ELSE IF ToLowerCase(data[i + 1].id) = needle THEN i
  ELSE FindIndexFrom(data, needle, i + 1)

\* mutant of findHotspotIndexById: the needle keeps its letter case
findHotspotIndexByIdExact(data, id) ==
  IF id = <<>> THEN -1
  ELSE FindIndexFrom(data, id, 0)

\* if (!id) return -1: the empty string is falsy
findHotspotIndexById(data, id) ==
  IF id = <<>> THEN -1
  ELSE FindIndexFrom(data, ToLowerCase(id), 0)

PairCfg(pair) ==
  [color |-> Coalesce(pair.color, baseCfg.color),
   opacity |-> Coalesce(pair.opacity, baseCfg.opacity),
   arcHeight |-> Coalesce(pair.arcHeight, baseCfg.arcHeight),
   segments |-> Coalesce(pair.segments, baseCfg.segments),
   thickness |-> Coalesce(pair.thickness, baseCfg.thickness),
   radialSegments |-> Coalesce(pair.radialSegments, baseCfg.radialSegments),
   heightOffset |-> Coalesce(pair.heightOffset, baseCfg.heightOffset)]

PairGeometry(data, dots, fromIndex, toIndex, cfg) ==
  buildArcTubeGeometry(
    collectArcPointsBetween(getHotspotWorldPosition(data[fromIndex + 1], dots),
                            getHotspotWorldPosition(data[toIndex + 1], dots),
                            cfg),
    cfg)

RECURSIVE PairEntriesFrom(_, _, _, _)
PairEntriesFrom(pairs, k, data, dots) ==
  IF k > Len(pairs) THEN <<>>
  ELSE LET pair == pairs[k]
           fromIndex == findHotspotIndexById(data, pair.fromId)
           toIndex == findHotspotIndexById(data, pair.toId)
           rest == PairEntriesFrom(pairs, k + 1, data, dots)
       IN IF fromIndex < 0 \/ toIndex < 0 THEN rest
          ELSE << [fromIndex |-> fromIndex, toIndex |-> toIndex,
                   cfg |-> PairCfg(pair),
                   material |-> [color |-> PairCfg(pair).color,
                                 opacity |-> PairCfg(pair).opacity],
                   geometry |-> PairGeometry(data, dots, fromIndex, toIndex,
                                             PairCfg(pair))] >> \o rest

\* the value of hotspotPairLines after buildHotspotPairConnections
buildHotspotPairConnections(data, dots) ==
  IF ~lineEnabled \/ Len(connectionPairs) = 0 THEN <<>>
  ELSE PairEntriesFrom(connectionPairs, 1, data, dots)

\* the value of hotspotPairLines after updateHotspotPairConnections
updateHotspotPairConnections(lines, data, dots) ==
  IF ~lineEnabled THEN <<>>
  ELSE [k \in 1..Len(lines) |->
          [lines[k] EXCEPT !.geometry =
             PairGeometry(data, dots, lines[k].fromIndex, lines[k].toIndex,
                          lines[k].cfg)]]

\* hotspotLine is <<>> when it is null and << geometry >> when it is a mesh
noLine == <<>>

\* the value of hotspotLine after buildHotspotConnectionLine
buildHotspotConnectionLine(data, dots) ==
  IF ~isSequentialConnectionEnabled \/ Len(data) < 2 THEN noLine
  ELSE LET points == collectHotspotArcPoints(data, dots)
       IN IF Len(points) < 2 THEN noLine
          ELSE << buildArcTubeGeometry(points, baseCfg) >>

\* the value of hotspotLine after updateHotspotConnectionLine
updateHotspotConnectionLine(line, data, dots) ==
  IF ~isSequentialConnectionEnabled THEN noLine
  ELSE IF line = noLine THEN line
  ELSE LET points == collectHotspotArcPoints(data, dots)
       IN IF Len(points) < 2 THEN line
          ELSE << buildArcTubeGeometry(points, baseCfg) >>

(***************************************************************************)
(* The marker solid: preset resolution and the four geometry factories.    *)
(* Radii and heights are integers in thousandths of a world unit.  A       *)
(* geometry is the list of the primitive solids the factory merges; each   *)
(* carries the radii and heights its constructor is passed and its rise,   *)
(* the extent it adds to the stack along the axis.                         *)
(***************************************************************************)
\* getActiveHotspotLayoutPreset without the classic fallback
getActiveHotspotLayoutPresetNoFallback ==
  LET layoutCfg == CONFIG.layout
      presets == layoutCfg.presets
      activeName == IF layoutCfg.active = noName THEN "classic"
                    ELSE layoutCfg.active
  IN IF activeName \in DOMAIN presets THEN presets[activeName]
     ELSE EmptyPreset

\* getActiveHotspotLayoutPreset()
getActiveHotspotLayoutPreset ==
  LET layoutCfg == CONFIG.layout
      presets == layoutCfg.presets
      activeName == IF layoutCfg.active = noName THEN "classic"
                    ELSE layoutCfg.active
      fallback == IF "classic" \in DOMAIN presets THEN presets["classic"]
                  ELSE EmptyPreset
  IN IF activeName \in DOMAIN presets THEN presets[activeName] ELSE fallback

Cylinder(radiusTop, radiusBottom, height, segs) ==
  [kind |-> "cylinder", radii |-> <<radiusTop, radiusBottom>>,
   heights |-> <<height>>, rise |-> height, segs |-> <<segs>>]

Cone(coneRadius, height, segs) ==
  [kind |-> "cone", radii |-> <<coneRadius>>, heights |-> <<height>>,
   rise |-> height, segs |-> <<segs>>]

\* SphereGeometry(sphereRadius, ..., 0, theta): the cap of polar angle theta,
\* which rises sphereRadius * (1 - cos(theta)) above its rim
SphereCap(sphereRadius, rise, segs, domeSegments) ==
  [kind |-> "sphere", radii |-> <<sphereRadius>>, heights |-> <<>>,
   rise |-> rise, segs |-> <<segs, domeSegments>>]

Circle(circleRadius, segs) ==
  [kind |-> "circle", radii |-> <<circleRadius>>, heights |-> <<>>,
   rise |-> 0, segs |-> <<segs>>]

Torus(majorRadius, tubeRadius, radialSegs, tubularSegs, offset) ==
  [kind |-> "torus", radii |-> <<majorRadius, tubeRadius>>,
   heights |-> <<>>, rise |-> 0, offset |-> offset,
   segs |-> <<radialSegs, tubularSegs>>]

\* createDomedCylinderGeometry(...).  With theta = 2 * atan(domeHeight /
\* topRadius), topRadius / sin(theta) is (topRadius^2 + domeHeight^2) /
\* (2 * domeHeight), and the cap of that sphere rises domeHeight.
createDomedCylinderGeometry(topRadius, bottomRadius, height, radialSegments, domeHeightRatio, domeSegments) ==
  LET ratio == Max(80, Min(domeHeightRatio, 700))
      domeHeight == Min(MulQ(topRadius, ratio, 1000), MulQ(height, 450, 1000))
      cylinderHeight == Max(1, height - domeHeight)
      sphereRadius ==
        (topRadius * topRadius + domeHeight * domeHeight) \div (2 * domeHeight)
  IN << Cylinder(topRadius, bottomRadius, cylinderHeight, radialSegments),
        SphereCap(sphereRadius, domeHeight, radialSegments, domeSegments),
        Circle(topRadius, radialSegments),
        Circle(bottomRadius, radialSegments) >>

\* createCrystalHotspotGeometry(radius, height, radialSegments, preset)
createCrystalHotspotGeometry(r, height, radialSegments, preset) ==
  LET segs == Max(3, radialSegments)
      bodyRatio == Max(350, Min(820, Coalesce(preset.bodyHeightRatio, 640)))
      bodyHeight == Max(40, MulQ(height, bodyRatio, 1000))
      tipHeight == Max(40, height - bodyHeight)
      bodyTop == Max(10, MulQ(r, Coalesce(preset.bodyTopScale, 420), 1000))
      bodyBottom ==
        Max(10, MulQ(r, Coalesce(preset.bodyBottomScale, 1000), 1000))
  IN << Cylinder(bodyTop, bodyBottom, bodyHeight, segs),
        Cone(Max(10, MulQ(bodyTop, 1140, 1000)), tipHeight, segs) >>

\* createOrbitalHotspotGeometry(...)
createOrbitalHotspotGeometry(topRadius, bottomRadius, height, radialSegments, domeHeightRatio, domeSegments, preset) ==
  LET core == createDomedCylinderGeometry(topRadius, bottomRadius, height,
                radialSegments, domeHeightRatio, domeSegments)
      majorRadius == MulQ(Max(topRadius, bottomRadius),
                          Coalesce(preset.ringScale, 1250), 1000)
      tubeRadius ==
        Max(8, MulQ(majorRadius, Coalesce(preset.ringThickness, 140), 1000))
      ringTubularSegments == Max(10, MulQ(radialSegments, 18, 10))
      ringRadialSegments == Max(6, MulQ(radialSegments, 6, 10))
      ring == Torus(majorRadius, tubeRadius, ringRadialSegments,
                    ringTubularSegments,
                    MulQ(height, Coalesce(preset.ringOffset, 80), 1000))
  IN Append(core, ring)

\* createBeaconHotspotGeometry(radius, height, radialSegments, preset)
createBeaconHotspotGeometry(r, height, radialSegments, preset) ==
  LET segs == Max(4, radialSegments)
      tier1Ratio == Max(200, Min(700, Coalesce(preset.tier1HeightRatio, 440)))
      tier2Ratio == Max(150, Min(550, Coalesce(preset.tier2HeightRatio, 330)))
      tier1Height == Max(40, MulQ(height, tier1Ratio, 1000))
      tier2Height == Max(40, MulQ(height, tier2Ratio, 1000))
      tipHeight == Max(40, height - tier1Height - tier2Height)
      tier1Radius ==
        Max(10, MulQ(r, Coalesce(preset.tier1RadiusScale, 1000), 1000))
      tier2Radius ==
        Max(10, MulQ(r, Coalesce(preset.tier2RadiusScale, 680), 1000))
      tipRadius ==
        Max(10, MulQ(r, Coalesce(preset.tipRadiusScale, 340), 1000))
  IN << Cylinder(MulQ(tier1Radius, 900, 1000), tier1Radius, tier1Height, segs),
        Cylinder(MulQ(tier2Radius, 880, 1000), tier2Radius, tier2Height, segs),
        Cone(tipRadius, tipHeight, segs) >>

\* buildHotspotGeometryFromLayout() for the preset it resolved
MarkerFromPreset(preset) ==
  LET topRadius ==
        Max(20, MulQ(baseRadius, Coalesce(preset.topScale, 1000), 1000))
      bottomRadius ==
        Max(20, MulQ(baseRadius, Coalesce(preset.bottomScale, 1000), 1000))
      height ==
        Max(80, MulQ(baseHeight, Coalesce(preset.heightScale, 1000), 1000))
      radialSegments ==
        Max(4, Floor(Coalesce(preset.radialSegments, hotspotRadialSegments)))
      domeHeightRatio ==
        Coalesce(preset.domeHeightRatio, domeHeightRatioDefault)
      domeSegments ==
        Max(2, Floor(Coalesce(preset.domeSegments, domeSegmentsDefault)))
      geometry ==
        IF preset.geometry = "crystal"
        THEN createCrystalHotspotGeometry(Max(topRadius, bottomRadius),
               height, radialSegments, preset)
        ELSE IF preset.geometry = "orbital"
        THEN createOrbitalHotspotGeometry(topRadius, bottomRadius, height,
               radialSegments, domeHeightRatio, domeSegments, preset)
        ELSE IF preset.geometry = "beacon"
        THEN createBeaconHotspotGeometry(Max(topRadius, bottomRadius),
               height, radialSegments, preset)
        ELSE createDomedCylinderGeometry(topRadius, bottomRadius, height,
               radialSegments, domeHeightRatio, domeSegments)
  IN [geometry |-> geometry, hotspotHeight |-> height, preset |-> preset]

buildHotspotGeometryFromLayout ==
  MarkerFromPreset(getActiveHotspotLayoutPreset)

\* the marker height on the world grid of the scene
hotspotHeight == buildHotspotGeometryFromLayout.hotspotHeight \div 1000

(***************************************************************************)
(* buildDotsFromFile: dot records, nearest-dot binding, meshes, arcs.      *)
(***************************************************************************)
DotRecord(xy) ==
  [x |-> xy[1], y |-> xy[2], lift |-> 0, targetLift |-> 0,
   isHotspot |-> FALSE, hotspotIndex |-> -1]

\* Map coordinates times 18: x = (lon / 180) * (20 / 2) = lon / 18 and
\* y = (lat / 90) * (10 / 2) = lat / 18.
latLonToMapXY(lat, lon) == [x |-> lon, y |-> lat]

\* mutant of NearestScan: a dot at the same distance replaces the best one
RECURSIVE NearestScanLast(_, _, _, _, _)
NearestScanLast(dots, idx, at, bestIndex, bestDist) ==
  IF idx >= Len(dots) THEN bestIndex
  ELSE LET p == dots[idx + 1]
           dx == 18 * p.x - at.x
           dy == 18 * p.y - at.y
           d == dx * dx + dy * dy
       IN IF bestIndex = -1 \/ d <= bestDist
          THEN NearestScanLast(dots, idx + 1, at, idx, d)
          ELSE NearestScanLast(dots, idx + 1, at, bestIndex, bestDist)

\* The scan of the bind loop from dot idx on; bestIndex = -1 stands for
\* bestDist = Infinity.  Distances are kept times 18 * 18.
RECURSIVE NearestScan(_, _, _, _, _)
NearestScan(dots, idx, at, bestIndex, bestDist) ==
  IF idx >= Len(dots) THEN bestIndex
  ELSE LET p == dots[idx + 1]
           dx == 18 * p.x - at.x
           dy == 18 * p.y - at.y
           d == dx * dx + dy * dy
       IN IF bestIndex = -1 \/ d < bestDist
          THEN NearestScan(dots, idx + 1, at, idx, d)
          ELSE NearestScan(dots, idx + 1, at, bestIndex, bestDist)

NearestDot(dots, lat, lon) == NearestScan(dots, 0, latLonToMapXY(lat, lon), -1, 0)

\* mutant of InstanceTransform: the marker stays at its rest height
InstanceTransformAtRest(p, height, totalLift) ==
  [x |-> getMapWorldX(p.x),
   y |-> getCylinderCenterY(height, 0),
   z |-> -p.y * SPACING]

InstanceTransform(p, height, totalLift) ==
  [x |-> getMapWorldX(p.x),
   y |-> getCylinderCenterY(height, totalLift),
   z |-> -p.y * SPACING]

\* types in the order Object.entries(grouped) yields them
RECURSIVE TypeOrder(_, _)
TypeOrder(raw, seen) ==
  IF raw = <<>> THEN seen
  ELSE IF \E k \in 1..Len(seen) : seen[k] = Head(raw).type
       THEN TypeOrder(Tail(raw), seen)
       ELSE TypeOrder(Tail(raw), Append(seen, Head(raw).type))

IsOfType(h, type) == h.type = type

GroupList(raw, type) == SelectSeq(raw, LAMBDA h : IsOfType(h, type))

\* mutant of MarkHotspotDot: a dot keeps the first back-reference it got
MarkHotspotDotFirstWins(dots, bestIndex, index) ==
  IF dots[bestIndex + 1].isHotspot THEN dots
  ELSE [dots EXCEPT ![bestIndex + 1].isHotspot = TRUE,
                    ![bestIndex + 1].hotspotIndex = index]

\* dotPositions[bestIndex].isHotspot = true;
\* dotPositions[bestIndex].hotspotIndex = hotspotData.length
MarkHotspotDot(dots, bestIndex, index) ==
  [dots EXCEPT ![bestIndex + 1].isHotspot = TRUE,
               ![bestIndex + 1].hotspotIndex = index]

\* list.forEach((hs, i) => ...) from element i on.  st carries dots, data and
\* the matrices of the group's mesh; threw is set when dotPositions[bestIndex]
\* is undefined and the assignment to it raises a TypeError.
RECURSIVE BindList(_, _, _, _)
BindList(list, i, type, st) ==
  IF i >= Len(list) \/ st.threw THEN st
  ELSE LET hs == list[i + 1]
           bestIndex == NearestDot(st.dots, hs.lat, hs.lon)
       IN IF bestIndex = -1 THEN [st EXCEPT !.threw = TRUE]
          ELSE LET dots2 == MarkHotspotDot(st.dots, bestIndex, Len(st.data))
                   rec == [id |-> hs.id, lat |-> hs.lat, lon |-> hs.lon,
                           type |-> hs.type,
                           dotIndex |-> bestIndex,
                           meshType |-> type,
                           meshInstanceId |-> i,
                           height |-> st.height,
                           idleLift |-> 0,
                           animationPhase |-> (bestIndex + i) * idlePhaseStep]
               IN BindList(list, i + 1, type,
                    [st EXCEPT
                       !.dots = dots2,
                       !.data = Append(st.data, rec),
                       !.matrices = Append(st.matrices,
                           InstanceTransform(dots2[bestIndex + 1],
                                             st.height, 0))])

\* Object.entries(grouped).forEach(([type, list]) => ...): hotspotMeshes[type]
\* is assigned after the group's list has been bound.
RECURSIVE BindGroups(_, _, _)
BindGroups(types, raw, st) ==
  IF types = <<>> \/ st.threw THEN st
  ELSE LET type == Head(types)
           g == BindList(GroupList(raw, type), 0, type,
                         [st EXCEPT !.matrices = <<>>])
       IN IF g.threw THEN g
          ELSE BindGroups(Tail(types), raw,
                 [g EXCEPT !.meshes =
                    Append(g.meshes, [type |-> type, geometry |-> st.geometry,
                                      hotspotHeight |-> st.height,
                                      matrices |-> g.matrices])])

\* the state buildDotsFromFile(dots) leaves, given the raw hotspot records
buildDotsFromFile(dots, raw, data0) ==
  LET st0 == [dots |-> [k \in 1..Len(dots) |-> DotRecord(dots[k])],
              data |-> data0, meshes |-> <<>>, matrices |-> <<>>,
              geometry |-> buildHotspotGeometryFromLayout.geometry,
              height |-> hotspotHeight,
              threw |-> FALSE]
      st == BindGroups(TypeOrder(raw, <<>>), raw, st0)
  IN [dots |-> st.dots, data |-> st.data, meshes |-> st.meshes,
      threw |-> st.threw,
      line |-> IF st.threw THEN noLine
               ELSE buildHotspotConnectionLine(st.data, st.dots),
      pairLines |-> IF st.threw THEN <<>>
                    ELSE buildHotspotPairConnections(st.data, st.dots)]

(***************************************************************************)
(* The hover influence engine.                                             *)
(***************************************************************************)
\* sum over k >= from of (-1)^k * x^k / k!, times ExpScale, for x = n / d;
\* prev is the magnitude of term k - 1
RECURSIVE ExpSeries(_, _, _, _)
ExpSeries(n, d, k, prev) ==
  IF k > ExpTerms THEN 0
  ELSE LET t == (prev * n) \div (d * k)
       IN (IF k % 2 = 0 THEN t ELSE -t) + ExpSeries(n, d, k + 1, t)

\* Math.exp(-(n / d)) times ExpScale
ExpNeg(n, d) == ExpScale + ExpSeries(n, d, 1, ExpScale)


\* mutant of InOuterRadius: the outer radius is radius * 1.5
InOuterRadiusWide(d2) == 100 * d2 < (15 * radius) * (15 * radius)

\* d2 < outerRadiusSq with outerRadius = radius * 1.4
InOuterRadius(d2) == 100 * d2 < (14 * radius) * (14 * radius)

PlanarDist2(p, center) ==
  LET dx == (p.x - center.x) * SPACING
      dy == (p.y - center.y) * SPACING
  IN dx * dx + dy * dy

\* the squared distances between the dots of a point list
DotDistances ==
  UNION { { PlanarDist2([x |-> f[i][1], y |-> f[i][2]],
                        [x |-> f[j][1], y |-> f[j][2]]) :
              i \in 1..Len(f), j \in 1..Len(f) } : f \in DotFiles }

\* Math.exp(-t * t) with t = sqrt(d2) / radius, times ExpScale, tabulated
\* over those distances
ExpAt == [d2 \in DotDistances |-> ExpNeg(d2, radius * radius)]

\* Math.exp(-t * t) * maxLift
Influence(d2) == (ExpAt[d2] * maxLift) \div ExpScale

\* Influence over those distances
InfluenceAt == [d2 \in DotDistances |-> Influence(d2)]

\* mutant of HoverId: a miss clears the id at once
HoverIdNoHold(hit, hovered, cooldown) == IF hit # null THEN hit ELSE null

\* the id handleHover keeps, given the ray's hit (null: no hit)
HoverId(hit, hovered, cooldown) ==
  IF hit # null THEN hit
  ELSE IF cooldown <= 0 THEN null
  ELSE hovered

\* the cooldown handleHover leaves
HoverCooldown(hit, hovered, cooldown, cfg) ==
  Max((IF hit # null /\ hovered # hit THEN cfg.hoverCooldownFrames
       ELSE cooldown) - 1, 0)

\* mutant of HoverTargets: the influence is combined by minimum
HoverTargetsMin(dots, id) ==
  IF id = null THEN dots
  ELSE [k \in 1..Len(dots) |->
          IF InOuterRadius(PlanarDist2(dots[k], dots[id + 1]))
          THEN [dots[k] EXCEPT !.targetLift =
                  Min(dots[k].targetLift,
                      InfluenceAt[PlanarDist2(dots[k], dots[id + 1])])]
          ELSE dots[k]]

\* dotPositions after the influence pass around the hovered dot
HoverTargets(dots, id) ==
  IF id = null THEN dots
  ELSE [k \in 1..Len(dots) |->
          IF InOuterRadius(PlanarDist2(dots[k], dots[id + 1]))
          THEN [dots[k] EXCEPT !.targetLift =
                  Max(dots[k].targetLift,
                      InfluenceAt[PlanarDist2(dots[k], dots[id + 1])])]
          ELSE dots[k]]

\* raycaster.intersectObject(hoverProxyMesh): the instance under the pointer
RayHit(m, dots) == IF m # null /\ m < Len(dots) THEN m ELSE null

\* handleHover: the hover state and dot records it leaves
handleHover(m, hovered, cooldown, active, dots, cfg, built) ==
  IF ~built
  THEN [ran |-> FALSE, hit |-> null, hovered |-> hovered,
        cooldown |-> cooldown, liftActive |-> active, dots |-> dots]
  ELSE LET hit == RayHit(m, dots)
           id == HoverId(hit, hovered, cooldown)
       IN [ran |-> TRUE, hit |-> hit, hovered |-> id,
           cooldown |-> HoverCooldown(hit, hovered, cooldown, cfg),
           liftActive |-> IF id = null THEN active ELSE TRUE,
           dots |-> HoverTargets(dots, id)]

\* p.targetLift *= CONFIG.interaction.hoverFalloff
Decay(t) == MulQ(t, hoverFalloffNum, hoverFalloffDen)

IsDirty(p) == Abs(Decay(p.targetLift) - p.lift) > threshold

\* mutant of EaseDot: targetLift decays only while the dot is moving
EaseDotDecayInsideIf(p) ==
  LET t == Decay(p.targetLift)
      delta == t - p.lift
  IN IF Abs(delta) > threshold
     THEN [p EXCEPT !.targetLift = t,
                    !.lift = p.lift + MulQ(delta, easingNum, easingDen)]
     ELSE p

\* mutant of EaseDot: the step overshoots the target by the easing factor
EaseDotOvershoot(p) ==
  LET t == Decay(p.targetLift)
      delta == t - p.lift
  IN IF Abs(delta) > threshold
     THEN [p EXCEPT !.targetLift = t,
                    !.lift = p.lift + delta + MulQ(delta, easingNum, easingDen)]
     ELSE [p EXCEPT !.targetLift = t]

\* one dot of the forEach of smoothLiftUpdate
EaseDot(p) ==
  LET t == Decay(p.targetLift)
      delta == t - p.lift
  IN IF Abs(delta) > threshold
     THEN [p EXCEPT !.targetLift = t,
                    !.lift = p.lift + MulQ(delta, easingNum, easingDen)]
     ELSE [p EXCEPT !.targetLift = t]

\* mutant of EngineRuns: the quiescence test is dropped
EngineRunsAlways(hovered, active, built) == built

\* the engine runs unless it is quiescent
EngineRuns(hovered, active, built) == built /\ (active \/ hovered # null)

\* mutant of smoothLiftUpdate: the flag is cleared as soon as no dot is
\* hovered, whether or not a dot still moves
smoothLiftUpdateStopsEarly(hovered, active, dots, built) ==
  IF ~EngineRuns(hovered, active, built)
  THEN [liftActive |-> active, dots |-> dots]
  ELSE [liftActive |-> IF hovered = null THEN FALSE ELSE active,
        dots |-> [k \in 1..Len(dots) |-> EaseDot(dots[k])]]

\* smoothLiftUpdate: the lift-active flag and dot records it leaves
smoothLiftUpdate(hovered, active, dots, built) ==
  IF ~EngineRuns(hovered, active, built)
  THEN [liftActive |-> active, dots |-> dots]
  ELSE LET dirty == \E k \in 1..Len(dots) : IsDirty(dots[k])
       IN [liftActive |-> IF ~dirty /\ hovered = null THEN FALSE ELSE active,
           dots |-> [k \in 1..Len(dots) |-> EaseDot(dots[k])]]

(***************************************************************************)
(* syncHotspotLift and the frame loop.                                     *)
(***************************************************************************)
\* hotspotData after the forEach of syncHotspotLift
SyncData(data, elapsedTime, cfg) ==
  [k \in 1..Len(data) |->
     [data[k] EXCEPT !.idleLift = getHotspotIdleLift(data[k], elapsedTime, cfg)]]

RECURSIVE SetMatrices(_, _, _, _)
SetMatrices(meshes, data, dots, k) ==
  IF k > Len(data) THEN meshes
  ELSE LET hs == data[k]
           at == InstanceTransform(dots[hs.dotIndex + 1], hs.height,
                                   dots[hs.dotIndex + 1].lift + hs.idleLift)
       IN SetMatrices(
            [g \in 1..Len(meshes) |->
               IF meshes[g].type = hs.meshType
               THEN [meshes[g] EXCEPT !.matrices[hs.meshInstanceId + 1] = at]
               ELSE meshes[g]],
            data, dots, k + 1)

\* mutant of SyncDue: the lift-active flag is not looked at
SyncDueAnimationOnly(active, cfg) == cfg.idleEnabled \/ cfg.glowEnabled

\* whether animate calls syncHotspotLift
SyncDue(active, cfg) == active \/ cfg.idleEnabled \/ cfg.glowEnabled

syncHotspotLift(data, meshes, line, pairLines, dots, elapsedTime, cfg) ==
  LET data2 == SyncData(data, elapsedTime, cfg)
  IN [data |-> data2,
      meshes |-> SetMatrices(meshes, data2, dots, 1),
      line |-> updateHotspotConnectionLine(line, data2, dots),
      pairLines |-> updateHotspotPairConnections(pairLines, data2, dots)]

\* one run of animate with the clock reading elapsedTime
animate(elapsedTime) ==
  LET built == dotMesh /\ hoverProxyMesh
      hh == handleHover(mouse, hoveredInstanceId, hoverCooldown, liftActive,
                        dotPositions, CONFIG, built)
      sl == smoothLiftUpdate(hh.hovered, hh.liftActive, hh.dots, dotMesh)
      sy == IF SyncDue(sl.liftActive, CONFIG)
            THEN syncHotspotLift(hotspotData, hotspotMeshes, hotspotLine,
                                 hotspotPairLines, sl.dots, elapsedTime, CONFIG)
            ELSE [data |-> hotspotData, meshes |-> hotspotMeshes,
                  line |-> hotspotLine, pairLines |-> hotspotPairLines]
  IN /\ hoveredInstanceId' = hh.hovered
     /\ hoverCooldown' = hh.cooldown
     /\ liftActive' = sl.liftActive
     /\ dotPositions' = sl.dots
     /\ hotspotData' = sy.data
     /\ hotspotMeshes' = sy.meshes
     /\ hotspotLine' = sy.line
     /\ hotspotPairLines' = sy.pairLines
     /\ lastHit' = IF hh.ran THEN hh.hit ELSE lastHit
     /\ missStreak' = IF ~hh.ran THEN missStreak
                      ELSE IF hh.hit # null THEN 0
                      ELSE Min(missStreak + 1, MaxCooldownFrames)
     /\ UNCHANGED <<dotMesh, hoverProxyMesh>>

(***************************************************************************)
(* Hit resolution and the tooltip selection.                               *)
(***************************************************************************)
\* raycaster.intersectObject(mesh): the slot of the nearest instance of the
\* group under the pointer (null: no hit).  The pointer aimed at dot m hits
\* the instances that stand on that dot.
RECURSIVE HitSlotFrom(_, _, _)
HitSlotFrom(matrices, at, k) ==
  IF k >= Len(matrices) THEN null
  ELSE IF matrices[k + 1].x = at.x /\ matrices[k + 1].z = at.z THEN k
  ELSE HitSlotFrom(matrices, at, k + 1)

HitSlot(mesh, m, dots) ==
  IF m = null \/ m >= Len(dots) THEN null
  ELSE HitSlotFrom(mesh.matrices, InstanceTransform(dots[m + 1], 0, 0), 0)

RECURSIVE FindRecord(_, _, _, _)
FindRecord(data, type, instanceId, k) ==
  IF k >= Len(data) THEN null
  ELSE IF (type = "" \/ data[k + 1].meshType = type)
          /\ data[k + 1].meshInstanceId = instanceId THEN k
  ELSE FindRecord(data, type, instanceId, k + 1)

\* hotspotData.find(by type and slot) || hotspotData.find(by slot)
ResolveHit(data, type, instanceId) ==
  IF FindRecord(data, type, instanceId, 0) # null
  THEN FindRecord(data, type, instanceId, 0)
  ELSE FindRecord(data, "", instanceId, 0)

\* the loop over Object.values(hotspotMeshes) from group g on: the record
\* that is hit (null: none)
RECURSIVE HitHotspotFrom(_, _, _, _, _)
HitHotspotFrom(meshes, data, dots, m, g) ==
  IF g > Len(meshes) THEN null
  ELSE LET slot == HitSlot(meshes[g], m, dots)
           hs == IF slot = null THEN null
                 ELSE ResolveHit(data, meshes[g].type, slot)
       IN IF hs = null THEN HitHotspotFrom(meshes, data, dots, m, g + 1)
          ELSE hs

\* mutant of showTooltip: the selected marker's idle offset is reset
showTooltipResetIdle(hs, data) ==
  [activeHotspot |-> hs, hotspotData |-> [data EXCEPT ![hs + 1].idleLift = 0]]

\* showTooltip(hs): selects record hs; it reads hs.label and hs.message and
\* leaves the records as they are
showTooltip(hs, data) == [activeHotspot |-> hs, hotspotData |-> data]

hideTooltip(data) == [activeHotspot |-> null, hotspotData |-> data]

\* mutant of handleHotspots: a click on the selected hotspot keeps it selected
handleHotspotsNoToggle(isClick, m) ==
  LET hs == HitHotspotFrom(hotspotMeshes, hotspotData, dotPositions, m, 1)
  IN IF hs = null THEN hideTooltip(hotspotData)
     ELSE showTooltip(hs, hotspotData)

\* handleHotspots(isClick) with the pointer aimed at m: the selection and the
\* hotspot records it leaves
handleHotspots(isClick, m) ==
  LET hs == HitHotspotFrom(hotspotMeshes, hotspotData, dotPositions, m, 1)
  IN IF hs = null THEN hideTooltip(hotspotData)
     ELSE IF isClick /\ activeHotspot = hs THEN hideTooltip(hotspotData)
     ELSE showTooltip(hs, hotspotData)

(***************************************************************************)
(* Initial state and actions.                                              *)
(***************************************************************************)
Settings ==
  [hoverCooldownFrames : 1..MaxCooldownFrames,
   idleEnabled : BOOLEAN, glowEnabled : BOOLEAN,
   connectionLine : {DefaultLine}, connectionPairs : {DefaultPairs},
   layout : {DefaultLayout}, hover : {DefaultHover},
   hoverFalloff : {DefaultFalloff}]

NumSources == Len(HOTSPOT_DATA_SOURCES)

\* the module-level state before startMap
Constructed ==
  /\ mapDataRequested = FALSE
  /\ mapStarted = FALSE
  /\ animationStarted = FALSE
  /\ sourceState = [i \in 1..NumSources |-> "idle"]
  /\ dotSourceState = "idle"
  /\ diagnostics = 0
  /\ HOTSPOTS = <<>>
  /\ dotMesh = FALSE
  /\ hoverProxyMesh = FALSE
  /\ dotPositions = <<>>
  /\ hotspotMeshes = <<>>
  /\ hotspotData = <<>>
  /\ hotspotLine = noLine
  /\ hotspotPairLines = <<>>
  /\ hoveredInstanceId = null
  /\ hoverCooldown = 0
  /\ liftActive = FALSE
  /\ mouse = null
  /\ activeHotspot = null
  /\ mapActive = FALSE
  /\ isPointerDown = FALSE
  /\ lastClickToggled = FALSE
  /\ lastHit = null
  /\ missStreak = 0
  /\ baseTarget = <<>>
  /\ quietTicks = 0
  /\ ranTicks = 0

Init ==
  /\ CONFIG \in Settings
  /\ Constructed

\* loadHotspots(type, url): the records of source i, each tagged with type
TaggedRecords(i) ==
  [k \in 1..Len(HOTSPOT_DATA_SOURCES[i].data) |->
     HOTSPOT_DATA_SOURCES[i].data[k] @@ [type |-> HOTSPOT_DATA_SOURCES[i].type]]

RECURSIVE AllRecordsFrom(_)
AllRecordsFrom(i) ==
  IF i > NumSources THEN <<>> ELSE TaggedRecords(i) \o AllRecordsFrom(i + 1)

\* startMap(): requests the data and runs the first frame
StartMap ==
  /\ ~mapStarted
  /\ mapStarted' = TRUE
  /\ mapDataRequested' = TRUE
  /\ sourceState' = [i \in 1..NumSources |-> "pending"]
  /\ animationStarted' = TRUE
  /\ \E elapsedTime \in 0..MaxClock : animate(elapsedTime)
  /\ UNCHANGED <<CONFIG, dotSourceState, diagnostics, HOTSPOTS, pointerVars,
                 decayVars>>

\* the promise chain of loadMapData is still running
ChainAlive(states) == \A i \in 1..NumSources : states[i] # "failed"

\* mutant of AllLoaded: Promise.any in place of Promise.all
AnyLoaded(states) == \E i \in 1..NumSources : states[i] = "ok"

AllLoaded(states) == \A i \in 1..NumSources : states[i] = "ok"

\* a hotspot source resolves; when it is the last one, the first .then of
\* loadMapData fills HOTSPOTS and fetches the point source
HotspotSourceLoaded(i) ==
  /\ sourceState[i] = "pending"
  /\ sourceState' = [sourceState EXCEPT ![i] = "ok"]
  /\ IF AllLoaded(sourceState')
     THEN /\ HOTSPOTS' = AllRecordsFrom(1)
          /\ dotSourceState' = "pending"
     ELSE UNCHANGED <<HOTSPOTS, dotSourceState>>
  /\ UNCHANGED <<CONFIG, mapDataRequested, mapStarted, animationStarted,
                 diagnostics, sceneVars, hoverVars, pointerVars, observerVars,
                 decayVars>>

\* a hotspot source rejects: Promise.all rejects on the first one and the
\* .catch reports it
HotspotSourceFailed(i) ==
  /\ sourceState[i] = "pending"
  /\ sourceState' = [sourceState EXCEPT ![i] = "failed"]
  /\ diagnostics' = IF ChainAlive(sourceState) THEN diagnostics + 1
                    ELSE diagnostics
  /\ UNCHANGED <<CONFIG, mapDataRequested, mapStarted, animationStarted,
                 dotSourceState, HOTSPOTS, sceneVars, hoverVars, pointerVars,
                 observerVars, decayVars>>

\* the point source resolves with the list dots and buildDotsFromFile runs
DotSourceLoaded(dots) ==
  /\ dotSourceState = "pending"
  /\ dotSourceState' = "ok"
  /\ LET b == buildDotsFromFile(dots, HOTSPOTS, hotspotData)
     IN /\ hoverProxyMesh' = TRUE
        /\ dotMesh' = TRUE
        /\ dotPositions' = b.dots
        /\ hotspotData' = b.data
        /\ hotspotMeshes' = b.meshes
        /\ hotspotLine' = b.line
        /\ hotspotPairLines' = b.pairLines
        /\ diagnostics' = IF b.threw THEN diagnostics + 1 ELSE diagnostics
        /\ baseTarget' = [k \in 1..Len(b.dots) |-> 0]
  /\ UNCHANGED <<CONFIG, mapDataRequested, mapStarted, animationStarted,
                 sourceState, HOTSPOTS, hoverVars, pointerVars, observerVars,
                 quietTicks, ranTicks>>

\* the point source rejects and the .catch reports it
DotSourceFailed ==
  /\ dotSourceState = "pending"
  /\ dotSourceState' = "failed"
  /\ diagnostics' = diagnostics + 1
  /\ UNCHANGED <<CONFIG, mapDataRequested, mapStarted, animationStarted,
                 sourceState, HOTSPOTS, sceneVars, hoverVars, pointerVars,
                 observerVars, decayVars>>

\* a requestAnimationFrame callback
Tick ==
  /\ animationStarted
  /\ \E elapsedTime \in 0..MaxClock : animate(elapsedTime)
  /\ UNCHANGED <<CONFIG, loadVars, pointerVars, decayVars>>

\* a requestAnimationFrame callback, with the decay observers kept: at most
\* MaxQuietTicks ticks in a row are run without a hovered dot
TickDecay ==
  /\ animationStarted
  /\ \E elapsedTime \in 0..MaxClock : animate(elapsedTime)
  /\ IF hoveredInstanceId' # null
     THEN /\ baseTarget' = [k \in 1..Len(dotPositions') |->
                              dotPositions'[k].targetLift]
          /\ quietTicks' = 0
          /\ ranTicks' = 0
     ELSE /\ quietTicks < MaxQuietTicks
          /\ quietTicks' = quietTicks + 1
          /\ ranTicks' = IF EngineRuns(null, liftActive, dotMesh)
                         THEN ranTicks + 1 ELSE ranTicks
          /\ UNCHANGED baseTarget
  /\ UNCHANGED <<CONFIG, loadVars, pointerVars>>

\* "pointermove" on the canvas, with the pointer aimed at m
PointerMove(m) ==
  /\ mouse' = m
  /\ activeHotspot' = handleHotspots(FALSE, m).activeHotspot
  /\ hotspotData' = handleHotspots(FALSE, m).hotspotData
  /\ lastClickToggled' = FALSE
  /\ UNCHANGED <<CONFIG, loadVars, dotMesh, hoverProxyMesh, dotPositions,
                 hotspotMeshes, hotspotLine, hotspotPairLines, hoverVars,
                 mapActive, isPointerDown, observerVars, decayVars>>

\* "pointerdown" on the canvas
PointerDown(m) ==
  /\ isPointerDown' = TRUE
  /\ mouse' = m
  /\ activeHotspot' = handleHotspots(TRUE, m).activeHotspot
  /\ hotspotData' = handleHotspots(TRUE, m).hotspotData
  /\ lastClickToggled' =
       (/\ activeHotspot # null
        /\ HitHotspotFrom(hotspotMeshes, hotspotData, dotPositions, m, 1)
             = activeHotspot)
  /\ UNCHANGED <<CONFIG, loadVars, dotMesh, hoverProxyMesh, dotPositions,
                 hotspotMeshes, hotspotLine, hotspotPairLines, hoverVars,
                 mapActive, observerVars, decayVars>>

\* "pointerup" on the window
PointerUp ==
  /\ isPointerDown' = FALSE
  /\ UNCHANGED <<CONFIG, loadVars, sceneVars, hoverVars, mouse, activeHotspot,
                 mapActive, lastClickToggled, observerVars, decayVars>>

\* deactivateMap() unless the pointer is down: "pointerleave" on the container
PointerLeave ==
  /\ mapActive' = IF isPointerDown THEN mapActive ELSE FALSE
  /\ UNCHANGED <<CONFIG, loadVars, sceneVars, hoverVars, mouse, activeHotspot,
                 isPointerDown, lastClickToggled, observerVars, decayVars>>

\* "keydown" on the document
KeyDown(key) ==
  /\ mapActive' = IF key = "Escape" /\ mapActive THEN FALSE ELSE mapActive
  /\ UNCHANGED <<CONFIG, loadVars, sceneVars, hoverVars, mouse, activeHotspot,
                 isPointerDown, lastClickToggled, observerVars, decayVars>>

\* activateMap(): "click" and "touchend" on the overlay
OverlayActivate ==
  /\ mapActive' = TRUE
  /\ UNCHANGED <<CONFIG, loadVars, sceneVars, hoverVars, mouse, activeHotspot,
                 isPointerDown, lastClickToggled, observerVars, decayVars>>

LoadStep ==
  \/ \E i \in 1..NumSources : HotspotSourceLoaded(i)
  \/ \E i \in 1..NumSources : HotspotSourceFailed(i)
  \/ \E dots \in DotFiles : DotSourceLoaded(dots)
  \/ DotSourceFailed

(***************************************************************************)
(* Spec: the load chain and the frame loop under every setting, with the   *)
(* pointer moved by "pointermove".                                         *)
(***************************************************************************)
Next ==
  \/ StartMap
  \/ LoadStep
  \/ Tick
  \/ \E m \in PointerTargets : PointerMove(m)

Spec == Init /\ [][Next]_vars

(***************************************************************************)
(* SpecDecay: Spec with the decay observers kept by every tick.            *)
(***************************************************************************)
NextDecay ==
  \/ StartMap
  \/ LoadStep
  \/ TickDecay
  \/ \E m \in PointerTargets : PointerMove(m)

SpecDecay == Init /\ [][NextDecay]_vars

(***************************************************************************)
(* SpecEvents: every listener interleaved with the load chain and the      *)
(* frame loop, under one setting.                                          *)
(***************************************************************************)
InitEvents ==
  /\ Init
  /\ CONFIG = [hoverCooldownFrames |-> 2, idleEnabled |-> TRUE,
               glowEnabled |-> FALSE, connectionLine |-> DefaultLine,
               connectionPairs |-> DefaultPairs, layout |-> DefaultLayout,
               hover |-> DefaultHover, hoverFalloff |-> DefaultFalloff]

NextEvents ==
  \/ StartMap
  \/ LoadStep
  \/ Tick
  \/ \E m \in PointerTargets : PointerMove(m)
  \/ \E m \in PointerTargets : PointerDown(m)
  \/ PointerUp
  \/ PointerLeave
  \/ \E key \in {"Escape", "Enter"} : KeyDown(key)
  \/ OverlayActivate

SpecEvents == InitEvents /\ [][NextEvents]_vars

(***************************************************************************)
(* SpecLoad: the load chain with the point lists the file may also hold    *)
(* (among them the empty list), the frame loop and "pointermove", under    *)
(* one setting.                                                            *)
(***************************************************************************)
LoadFiles == DotFiles \cup { <<>> }

NextLoad ==
  \/ StartMap
  \/ \E i \in 1..NumSources : HotspotSourceLoaded(i)
  \/ \E i \in 1..NumSources : HotspotSourceFailed(i)
  \/ \E dots \in LoadFiles : DotSourceLoaded(dots)
  \/ DotSourceFailed
  \/ Tick
  \/ \E m \in PointerTargets : PointerMove(m)

SpecLoad == InitEvents /\ [][NextLoad]_vars

(***************************************************************************)
(* SpecBind: the bind pass on drawn file contents.  BindPass is the whole  *)
(* promise chain of loadMapData with every source resolved: the hotspot    *)
(* files hold the records raw and the point file holds dots.               *)
(***************************************************************************)
\* point lists with dots at equal distances from a coordinate, with the same
\* dots in another order and with two dots at one place
BindFiles ==
  { << <<0, 0>>, <<1, 0>> >>,
    << <<1, 0>>, <<0, 0>> >>,
    << <<0, 0>>, <<0, 0>>, <<1, 1>> >>,
    << <<1, 1>>, <<0, 1>>, <<1, 0>>, <<0, 0>> >>,
    << <<1, 1>> >> }

\* raw hotspot records: lat and lon on and half-way between the grid lines
RawRecords(id) ==
  { [id |-> id, lat |-> lat, lon |-> lon, type |-> type] :
      lat \in {0, 9}, lon \in {0, 9, 18}, type \in {"global", "regional"} }

\* HOTSPOTS after the first .then: one or two records, or three of which the
\* third is grouped, and so bound, before the second
RawLists ==
  { <<a>> : a \in RawRecords(IdA) }
    \cup { <<a, b>> : a \in RawRecords(IdA), b \in RawRecords(IdB) }
    \cup { <<a, [id |-> IdB, lat |-> 9, lon |-> 18, type |-> "regional"], c>> :
             a \in {r \in RawRecords(IdA) : r.type = "global"},
             c \in {r \in RawRecords(IdC) : r.type = "global" /\ r.lat = 0} }

BindPass(dots, raw) ==
  /\ mapStarted
  /\ dotSourceState = "idle"
  /\ sourceState' = [i \in 1..NumSources |-> "ok"]
  /\ HOTSPOTS' = raw
  /\ dotSourceState' = "ok"
  /\ LET b == buildDotsFromFile(dots, raw, hotspotData)
     IN /\ hoverProxyMesh' = TRUE
        /\ dotMesh' = TRUE
        /\ dotPositions' = b.dots
        /\ hotspotData' = b.data
        /\ hotspotMeshes' = b.meshes
        /\ hotspotLine' = b.line
        /\ hotspotPairLines' = b.pairLines
        /\ diagnostics' = IF b.threw THEN diagnostics + 1 ELSE diagnostics
        /\ baseTarget' = [k \in 1..Len(b.dots) |-> 0]
  /\ UNCHANGED <<CONFIG, mapDataRequested, mapStarted, animationStarted,
                 hoverVars, pointerVars, observerVars, quietTicks, ranTicks>>

NextBind ==
  \/ StartMap
  \/ \E dots \in BindFiles : \E raw \in RawLists : BindPass(dots, raw)
  \/ Tick

SpecBind == InitEvents /\ [][NextBind]_vars

(***************************************************************************)
(* SpecArcs: the arcs under drawn line styles and pair lists.  The bind    *)
(* pass runs on one point list and on the first n records of the hotspot   *)
(* files; the frame loop then rebuilds the arcs as the idle wave moves the *)
(* markers.                                                                *)
(***************************************************************************)
Ida == <<97>>

ArcLayout == << <<0, 0>>, <<1, 0>>, <<1, 1>> >>

\* the records of the hotspot files: the fourth has the id of the first in
\* the other letter case, the fifth has the empty id
ArcRecords ==
  << [id |-> IdA, lat |-> 0, lon |-> 0, type |-> "global"],
     [id |-> Idb, lat |-> 0, lon |-> 18, type |-> "global"],
     [id |-> IdC, lat |-> 18, lon |-> 18, type |-> "regional"],
     [id |-> Ida, lat |-> 0, lon |-> 18, type |-> "regional"],
     [id |-> <<>>, lat |-> 18, lon |-> 18, type |-> "global"] >>

ArcRawLists == { SubSeq(ArcRecords, 1, n) : n \in 0..Len(ArcRecords) }

\* connectionLine.segments: -1, 0, 0.5, 1, 1.5, 2, 2.5 and 3.5
LineStyles ==
  { [DefaultLine EXCEPT !.segments = h] : h \in {-2, 0, 1, 2, 3, 4, 5, 7} }

\* connectionPairs: ids in either letter case, ids that match no record, the
\* empty id, a pair from a record to itself, and every style field set
PairLists ==
  { DefaultPairs,
    << Pair(Ida, IdC, [NoStyle EXCEPT !.color = 2, !.opacity = 0,
                                      !.thickness = 3]) >>,
    << Pair(IdB, IdA, [NoStyle EXCEPT !.heightOffset = 4]) >>,
    << Pair(<<>>, IdA, NoStyle), Pair(IdA, <<>>, NoStyle),
       Pair(IdC, Idb, NoStyle) >>,
    << Pair(IdZ, IdA, NoStyle), Pair(IdB, IdB, NoStyle) >>,
    << >> }

ArcSettings ==
  [hoverCooldownFrames : {2}, idleEnabled : {TRUE}, glowEnabled : {FALSE},
   connectionLine : LineStyles, connectionPairs : PairLists,
   layout : {DefaultLayout}, hover : {DefaultHover},
   hoverFalloff : {DefaultFalloff}]

InitArcs ==
  /\ CONFIG \in ArcSettings
  /\ Constructed

NextArcs ==
  \/ StartMap
  \/ \E raw \in ArcRawLists : BindPass(ArcLayout, raw)
  \/ Tick

SpecArcs == InitArcs /\ [][NextArcs]_vars

(***************************************************************************)
(* SpecMarker: the marker solid under drawn layouts.  The bind pass builds *)
(* the solid from the layout and hands it to the mesh of every hotspot     *)
(* type.                                                                   *)
(***************************************************************************)
\* a domed preset that sets the shared fields
ClassicPreset ==
  [EmptyPreset EXCEPT !.topScale = 1200, !.bottomScale = 900,
                      !.domeHeightRatio = 300, !.radialSegments = 17,
                      !.ringScale = 1500, !.tier1HeightRatio = 300]

\* presets of every family: plain, short, with ratios at their clamps, and
\* with zero or negative scales, ratios and ring parameters
TowerPresets ==
  { [EmptyPreset EXCEPT !.geometry = "crystal", !.heightScale = 1500,
                        !.bodyHeightRatio = 700],
    [EmptyPreset EXCEPT !.geometry = "crystal", !.heightScale = 20,
                        !.bodyHeightRatio = 820, !.bodyTopScale = 0,
                        !.bodyBottomScale = -1000],
    [EmptyPreset EXCEPT !.geometry = "beacon", !.tier1HeightRatio = 700,
                        !.tier2HeightRatio = 550],
    [EmptyPreset EXCEPT !.geometry = "beacon", !.tier1RadiusScale = 0,
                        !.tier2RadiusScale = -1000, !.tipRadiusScale = 0,
                        !.heightScale = -1000],
    [EmptyPreset EXCEPT !.geometry = "beacon", !.domeSegments = 7],
    [EmptyPreset EXCEPT !.geometry = "orbital", !.bottomScale = 2000],
    [EmptyPreset EXCEPT !.geometry = "orbital", !.ringScale = 0,
                        !.ringThickness = 0],
    [EmptyPreset EXCEPT !.geometry = "orbital", !.ringScale = -1000,
                        !.ringThickness = -500, !.ringOffset = -500],
    [EmptyPreset EXCEPT !.topScale = 0, !.bottomScale = -1000,
                        !.heightScale = 0, !.domeHeightRatio = -500,
                        !.radialSegments = 1, !.domeSegments = -2],
    [EmptyPreset EXCEPT !.geometry = "cube", !.heightScale = 14,
                        !.domeHeightRatio = 2000] }

\* layout.presets: no preset, classic alone, tower alone, or both
PresetTables ==
  { [n \in {} |-> EmptyPreset], [classic |-> ClassicPreset] }
    \cup { [tower |-> t] : t \in TowerPresets }
    \cup { [classic |-> t] : t \in TowerPresets }
    \cup { [classic |-> ClassicPreset, tower |-> t] : t \in TowerPresets }

\* layout.active: not given, a preset that may exist, one that never does
Layouts ==
  [active : {noName, "classic", "tower", "ghost"}, presets : PresetTables]

MarkerSettings ==
  [hoverCooldownFrames : {2}, idleEnabled : {TRUE}, glowEnabled : {FALSE},
   connectionLine : {DefaultLine}, connectionPairs : {DefaultPairs},
   layout : Layouts, hover : {DefaultHover},
   hoverFalloff : {DefaultFalloff}]

InitMarker ==
  /\ CONFIG \in MarkerSettings
  /\ Constructed

MarkerRawLists == { SubSeq(ArcRecords, 1, n) : n \in {1, 3} }

NextMarker ==
  \/ StartMap
  \/ \E raw \in MarkerRawLists : BindPass(ArcLayout, raw)
  \/ Tick

SpecMarker == InitMarker /\ [][NextMarker]_vars

(***************************************************************************)
(* SpecLift: the lift engine under drawn hover parameters, the limits of   *)
(* their ranges included.  The bind pass runs on the files of the sources; *)
(* the pointer then moves over the dots while the frame loop runs.         *)
(***************************************************************************)
\* CONFIG.hover: maxLift 0 or positive, easing 0, 1/2 or 1
HoverSettings == [maxLift : {0, 16}, easing : { <<0, 1>>, <<1, 2>>, <<1, 1>> }]

\* CONFIG.interaction.hoverFalloff: 0, 1/2 or 1
FalloffSettings == { <<0, 1>>, <<1, 2>>, <<1, 1>> }

LiftSettings ==
  [hoverCooldownFrames : {2}, idleEnabled : {FALSE}, glowEnabled : {FALSE},
   connectionLine : {DefaultLine}, connectionPairs : {DefaultPairs},
   layout : {DefaultLayout}, hover : HoverSettings,
   hoverFalloff : FalloffSettings]

InitLift ==
  /\ CONFIG \in LiftSettings
  /\ Constructed

NextLift ==
  \/ StartMap
  \/ \E dots \in DotFiles : BindPass(dots, AllRecordsFrom(1))
  \/ Tick
  \/ \E m \in PointerTargets : PointerMove(m)

SpecLift == InitLift /\ [][NextLift]_vars

(***************************************************************************)
(* Properties.                                                             *)
(***************************************************************************)
Lifts(dots) ==
  [k \in 1..Len(dots) |-> <<dots[k].lift, dots[k].targetLift>>]

Settled(dots) ==
  \A k \in 1..Len(dots) : Abs(dots[k].targetLift - dots[k].lift) <= threshold

\* C1 as claimed: once a tick has ended with no hovered dot id and with every
\* dot's |targetLift - lift| at or under the threshold, a following tick whose
\* hover step has no hovered dot id leaves every lift and targetLift unchanged.
C1_SettledTicksChangeNothing ==
  [][(Tick /\ dotMesh /\ hoveredInstanceId = null /\ Settled(dotPositions)
        /\ hoveredInstanceId' = null)
       => Lifts(dotPositions') = Lifts(dotPositions)]_vars

\* C1 amended: once a tick has ended with the lift-active flag cleared, a
\* following tick whose hover step has no hovered dot id leaves every dot's
\* lift and targetLift unchanged.
C1_QuiescentTicksChangeNothing ==
  [][(Tick /\ dotMesh /\ ~liftActive /\ hoveredInstanceId' = null)
       => Lifts(dotPositions') = Lifts(dotPositions)]_vars

\* a quiescent engine that holds a residual lift and has seen ticks without
\* a hit
C1_Witness ==
  /\ dotMesh /\ ~liftActive /\ hoveredInstanceId = null
  /\ missStreak = MaxCooldownFrames
  /\ \E k \in 1..Len(dotPositions) : dotPositions[k].targetLift > 0

\* C2: the engine never stops updating (lift-active flag cleared, no hovered
\* dot id) while some dot's lift is still above the threshold; otherwise the
\* lift stays above it for ever once the ray hits no dot again.
C2_StopsOnlyAtRest ==
  (dotMesh /\ ~liftActive /\ hoveredInstanceId = null)
    => \A k \in 1..Len(dotPositions) : dotPositions[k].lift <= threshold

\* Decay applied k times
RECURSIVE DecayPow(_, _)
DecayPow(t, k) == IF k = 0 THEN t ELSE DecayPow(Decay(t), k - 1)

\* C3 as claimed: after k consecutive ticks with no hovered dot, every dot's
\* targetLift is its value before those ticks times falloff^k.
C3_DecayOnEveryTick ==
  \A k \in 1..Len(dotPositions) :
    dotPositions[k].targetLift = DecayPow(baseTarget[k], quietTicks)

\* C3 amended: after k consecutive ticks with no hovered dot, every dot's
\* targetLift is its value before those ticks times falloff^j, where j is the
\* number of those ticks on which the engine ran (the lift-active flag was
\* set); a tick on which the engine is quiescent leaves targetLift unchanged.
C3_DecayOnEveryEngineTick ==
  \A k \in 1..Len(dotPositions) :
    dotPositions[k].targetLift = DecayPow(baseTarget[k], ranTicks)

\* since the last hover a lifted dot's targetLift has been decayed by the
\* engine and then left alone for two or more quiescent ticks
C3_Witness ==
  /\ ranTicks >= 1 /\ quietTicks >= ranTicks + 2
  /\ \E k \in 1..Len(dotPositions) :
       /\ dotPositions[k].targetLift > 0
       /\ baseTarget[k] > dotPositions[k].targetLift

\* C4: with hoverCooldownFrames >= 2, a tick whose ray hits no dot right
\* after a tick whose ray hit the hovered dot leaves the hovered id as it was.
C4_MissAfterHitHolds ==
  [][(Tick /\ dotMesh /\ CONFIG.hoverCooldownFrames >= 2
        /\ lastHit # null /\ hoveredInstanceId = lastHit
        /\ RayHit(mouse, dotPositions) = null)
       => hoveredInstanceId' = hoveredInstanceId]_vars

\* C5: the hovered id is cleared only by a tick whose ray hits no dot and
\* whose cooldown counter is zero; after hoverCooldownFrames consecutive ticks
\* without a hit the hovered id is null; the cooldown counter stays within
\* 0..hoverCooldownFrames.
C5_Release ==
  /\ [](hoverCooldown \in 0..CONFIG.hoverCooldownFrames)
  /\ [](missStreak >= CONFIG.hoverCooldownFrames => hoveredInstanceId = null)
  /\ [][(hoveredInstanceId # null /\ hoveredInstanceId' = null)
          => (Tick /\ RayHit(mouse, dotPositions) = null /\ hoverCooldown = 0)]_vars

\* the id is still held after a miss, with the cooldown running
C5_Witness ==
  /\ hoveredInstanceId # null /\ lastHit = null /\ missStreak >= 1
  /\ CONFIG.hoverCooldownFrames >= 2

\* 100 * d2 > (14 * radius)^2: the planar distance is greater than 1.4 * radius
Beyond(p, center) ==
  100 * PlanarDist2(p, center) > (14 * radius) * (14 * radius)

\* C6: in a tick whose hover step has dot c as center, every dot farther than
\* 1.4 * radius from c has its targetLift changed by the falloff decay only.
C6_HoverLocality ==
  [][(Tick /\ hoveredInstanceId' # null)
       => \A k \in 1..Len(dotPositions) :
            Beyond(dotPositions[k], dotPositions[hoveredInstanceId' + 1])
              => dotPositions'[k].targetLift = Decay(dotPositions[k].targetLift)]_vars

\* dot 0 is the center, dot 1 (inside the outer radius) is raised and dot 2
\* (outside of it) is not
C6_Witness ==
  /\ hoveredInstanceId = 0 /\ Len(dotPositions) = 3
  /\ Beyond(dotPositions[3], dotPositions[1])
  /\ ~Beyond(dotPositions[2], dotPositions[1])
  /\ dotPositions[1].targetLift > 0
  /\ dotPositions[2].targetLift > 0
  /\ dotPositions[3].targetLift = 0

\* C7 as claimed: after a tick in which dot c is the hovered center, c's
\* targetLift equals maxLift.
C7_CenterAtMaxLiftAfterTick ==
  [][(Tick /\ hoveredInstanceId' # null)
       => dotPositions'[hoveredInstanceId' + 1].targetLift = maxLift]_vars

\* C7 amended: in a tick in which dot c is the hovered center, c's targetLift
\* equals maxLift at the end of the hover step and maxLift times the falloff
\* factor at the end of the tick, the value from which the later decay goes on.
C7_CenterAtMaxLiftAfterHoverStep ==
  [][(Tick /\ hoveredInstanceId' # null)
       => /\ HoverTargets(dotPositions, hoveredInstanceId')
               [hoveredInstanceId' + 1].targetLift = maxLift
          /\ dotPositions'[hoveredInstanceId' + 1].targetLift = Decay(maxLift)]_vars

\* dot 1 has been the hovered center of the last tick
C7_Witness ==
  /\ hoveredInstanceId = 1 /\ lastHit = 1
  /\ dotPositions[2].targetLift = Decay(maxLift)

\* C8: the sequential arc and every manual-pair arc is the geometry computed
\* from the current world positions of its endpoint hotspots.
C8_NoStaleArcs ==
  /\ hotspotLine # noLine =>
       hotspotLine = << buildArcTubeGeometry(
                          collectHotspotArcPoints(hotspotData, dotPositions),
                          baseCfg) >>
  /\ \A k \in 1..Len(hotspotPairLines) :
       hotspotPairLines[k].geometry =
         PairGeometry(hotspotData, dotPositions, hotspotPairLines[k].fromIndex,
                      hotspotPairLines[k].toIndex, hotspotPairLines[k].cfg)

\* idle and glow disabled; hotspot 0, the shared endpoint of both pairs, stands
\* on a dot that is lifted
C8_Witness ==
  /\ ~CONFIG.idleEnabled /\ ~CONFIG.glowEnabled
  /\ Len(hotspotPairLines) = 2
  /\ hotspotPairLines[1].fromIndex = 0 /\ hotspotPairLines[2].fromIndex = 0
  /\ hotspotLine # noLine
  /\ dotPositions[hotspotData[1].dotIndex + 1].lift > 0

\* C9: dot records and bound hotspot records change only inside a tick or the
\* bind pass, never in a pointer, key or overlay listener.
C9_EventIsolation ==
  [][(dotPositions' # dotPositions \/ hotspotData' # hotspotData)
       => (Tick \/ \E dots \in DotFiles : DotSourceLoaded(dots))]_vars

\* listeners have run while dots were lifted and a hotspot is selected
C9_Witness ==
  /\ activeHotspot # null /\ isPointerDown /\ mapActive
  /\ liftActive
  /\ \E k \in 1..Len(dotPositions) : dotPositions[k].lift > 0

LoadsComplete ==
  /\ \A i \in 1..NumSources : sourceState[i] = "ok"
  /\ dotSourceState = "ok"

\* C10 as claimed: no frame executes before both loads have completed
\* (animationStarted is set by startMap right before it runs the first frame).
C10_NoFrameBeforeLoads ==
  animationStarted => LoadsComplete

\* C10 amended: frames run from startMap on, also while the loads are pending;
\* what waits for the loads is the bind pass and with it the hover and lift
\* steps: until every hotspot source and then the point source have loaded
\* there are no dot records, bound hotspot records, meshes or arcs, no hovered
\* id and no lift activity, and a frame changes none of them.
C10_PipelineStateGatedOnLoads ==
  (\/ dotMesh \/ hoverProxyMesh
   \/ dotPositions # <<>> \/ hotspotData # <<>> \/ hotspotMeshes # <<>>
   \/ hotspotLine # noLine \/ hotspotPairLines # <<>>
   \/ hoveredInstanceId # null \/ liftActive)
    => LoadsComplete

\* frames are running, the pointer is aimed at a dot position and the point
\* source is still loading
C10_Witness ==
  /\ animationStarted /\ dotSourceState = "pending"
  /\ mouse # null /\ ~dotMesh

\* a load of loadMapData has failed
LoadFailed ==
  \/ \E i \in 1..NumSources : sourceState[i] = "failed"
  \/ dotSourceState = "failed"

\* C11: when a hotspot source load or the point source load has failed, one
\* diagnostic has been reported and the state is the pre-load empty state: no
\* raw hotspot records, no dot records, no bound hotspot records, no meshes and
\* no arcs.
C11_FailedLoadLeavesEmptyState ==
  LoadFailed =>
    /\ diagnostics = 1
    /\ HOTSPOTS = <<>>
    /\ ~dotMesh /\ ~hoverProxyMesh
    /\ dotPositions = <<>> /\ hotspotData = <<>> /\ hotspotMeshes = <<>>
    /\ hotspotLine = noLine /\ hotspotPairLines = <<>>

\* the bind pass has run with zero dots and at least one raw hotspot record
BoundOnEmptyList ==
  dotSourceState = "ok" /\ dotPositions = <<>> /\ HOTSPOTS # <<>>

\* C12: when the bind pass has run with zero dots and at least one hotspot
\* record, no error has been raised, no registry record has been created and
\* the group meshes have been registered (the pass went on past the bind loop
\* to the construction of the arcs).
C12_EmptyListSkipsHotspots ==
  BoundOnEmptyList =>
    /\ diagnostics = 0
    /\ hotspotData = <<>>
    /\ Len(hotspotMeshes) = Len(TypeOrder(HOTSPOTS, <<>>))
\* squared planar distance, times 18 * 18, from dot p to the map coordinate at
MapDist2(p, at) ==
  (18 * p.x - at.x) * (18 * p.x - at.x) + (18 * p.y - at.y) * (18 * p.y - at.y)

\* i is the lowest index among the dots that minimize the distance to at
IsLowestNearest(dots, i, at) ==
  /\ i \in 0..(Len(dots) - 1)
  /\ \A j \in 0..(Len(dots) - 1) :
       /\ MapDist2(dots[j + 1], at) >= MapDist2(dots[i + 1], at)
       /\ j < i => MapDist2(dots[j + 1], at) > MapDist2(dots[i + 1], at)

\* C13: for a non-empty point list, every bound hotspot's dotIndex is the
\* lowest index among the dots that minimize the squared planar distance to
\* the hotspot's mapped coordinate: a function of the point list and that
\* coordinate only, whatever the other hotspots, the types and the bind order.
C13_NearestDotBinding ==
  \A k \in 1..Len(hotspotData) :
    IsLowestNearest(dotPositions, hotspotData[k].dotIndex,
                    latLonToMapXY(hotspotData[k].lat, hotspotData[k].lon))

\* three hotspots are bound, the third of the file before the second, and it
\* stands on the lower of two dots at the same least distance
C13_Witness ==
  /\ Len(hotspotData) = 3
  /\ hotspotData[2].id = IdC /\ hotspotData[3].type = "regional"
  /\ \E i, j \in 0..(Len(dotPositions) - 1) :
       /\ i < j /\ hotspotData[2].dotIndex = i
       /\ MapDist2(dotPositions[i + 1],
                   latLonToMapXY(hotspotData[2].lat, hotspotData[2].lon))
            = MapDist2(dotPositions[j + 1],
                       latLonToMapXY(hotspotData[2].lat, hotspotData[2].lon))
\* the hotspot that stands on the dot the pointer is aimed at (null: none)
HotspotUnder(m, data) ==
  IF m = null \/ ~(\E k \in 1..Len(data) : data[k].dotIndex = m) THEN null
  ELSE (CHOOSE k \in 1..Len(data) : data[k].dotIndex = m) - 1

\* C14: a click that hits the selected hotspot leaves nothing selected; any
\* other pointer-move or click that hits hotspot H leaves H selected; one that
\* hits no hotspot leaves nothing selected; the selection is one hotspot
\* record or none.
C14_SelectionStateMachine ==
  /\ [](activeHotspot \in {null} \cup (0..(Len(hotspotData) - 1)))
  /\ [][(\E m \in PointerTargets : PointerDown(m))
          => activeHotspot' =
               (IF HotspotUnder(mouse', hotspotData) = activeHotspot THEN null
                ELSE HotspotUnder(mouse', hotspotData))]_vars
  /\ [][(\E m \in PointerTargets : PointerMove(m))
          => activeHotspot' = HotspotUnder(mouse', hotspotData)]_vars

\* the latest pointer event was a click on the selected hotspot
C14_Witness ==
  /\ lastClickToggled /\ activeHotspot = null
  /\ HotspotUnder(mouse, hotspotData) # null
\* S of the claim: max(1, floor(segments)), for segments kept in halves
ClaimedSegments(h) ==
  IF h < 2 THEN 1 ELSE CHOOSE n \in 1..h : 2 * n <= h /\ h < 2 * n + 2

\* C15: for N >= 2 bound hotspots and S = max(1, floor(segments)) the
\* sequential arc has exactly (S + 1) + (N - 2) * S samples: the first leg
\* gives the samples s = 0..S and every later leg the samples s = 1..S.
C15_SequentialPointCount ==
  LET N == Len(hotspotData)
      S == ClaimedSegments(CONFIG.connectionLine.segments)
  IN /\ (dotSourceState = "ok" /\ N >= 2) => hotspotLine # noLine
     /\ hotspotLine # noLine =>
          /\ N >= 2
          /\ Len(hotspotLine[1].points) = (S + 1) + (N - 2) * S
          /\ \A k \in 1..Len(hotspotLine[1].points) :
               hotspotLine[1].points[k].bow[1] =
                 (IF k <= S + 1 THEN k - 1 ELSE ((k - S - 2) % S) + 1)

\* a chain over four hotspots with segments = 2.5
C15_Witness ==
  /\ hotspotLine # noLine /\ Len(hotspotData) = 4
  /\ CONFIG.connectionLine.segments = 5
  /\ Len(hotspotLine[1].points) = 7
\* strings a and b are equal ignoring letter case
SameIgnoringCase(a, b) ==
  /\ Len(a) = Len(b)
  /\ \A k \in 1..Len(a) :
       (IF a[k] \in 97..122 THEN a[k] - 32 ELSE a[k])
         = (IF b[k] \in 97..122 THEN b[k] - 32 ELSE b[k])

\* index of the first record whose id matches id ignoring case (-1: none)
FirstMatch(data, id) ==
  IF \E k \in 1..Len(data) : SameIgnoringCase(data[k].id, id)
  THEN (CHOOSE k \in 1..Len(data) :
          /\ SameIgnoringCase(data[k].id, id)
          /\ \A j \in 1..(k - 1) : ~SameIgnoringCase(data[j].id, id)) - 1
  ELSE -1

\* the endpoints of the arc entries, in order
PairEndpoints(lines) ==
  [k \in 1..Len(lines) |-> <<lines[k].fromIndex, lines[k].toIndex>>]

\* the first matching records of the pairs kept, in configuration order
EndpointsOf(kept, data) ==
  [k \in 1..Len(kept) |->
     <<FirstMatch(data, kept[k].fromId), FirstMatch(data, kept[k].toId)>>]

\* C16 as claimed: after a build the arc entries are exactly the pairs of
\* which both ids match some hotspot id ignoring letter case, in configuration
\* order, each one between the first matching records.
C16_ResolvablePairsOnly ==
  dotSourceState = "ok" =>
    PairEndpoints(hotspotPairLines)
      = EndpointsOf(
          SelectSeq(connectionPairs,
                    LAMBDA pair : /\ FirstMatch(hotspotData, pair.fromId) >= 0
                                  /\ FirstMatch(hotspotData, pair.toId) >= 0),
          hotspotData)

\* C16 amended: after a build the arc entries are exactly the pairs of which
\* both ids are non-empty and match some hotspot id ignoring letter case, in
\* configuration order, each one between the first matching records; a pair
\* with an empty id yields no entry, also when a hotspot has the empty id.
C16_ResolvableNonEmptyPairsOnly ==
  dotSourceState = "ok" =>
    PairEndpoints(hotspotPairLines)
      = EndpointsOf(
          SelectSeq(connectionPairs,
                    LAMBDA pair : /\ pair.fromId # <<>> /\ pair.toId # <<>>
                                  /\ FirstMatch(hotspotData, pair.fromId) >= 0
                                  /\ FirstMatch(hotspotData, pair.toId) >= 0),
          hotspotData)

\* two of three pairs are resolved, by ids in the other letter case, and the
\* id "A" is matched by the first and by the last record
C16_Witness ==
  /\ Len(hotspotData) = 5 /\ connectionPairs = DefaultPairs
  /\ Len(hotspotPairLines) = 2
  /\ hotspotPairLines[1].fromIndex = 0
  /\ SameIgnoringCase(hotspotData[5].id, IdA)
\* the style of the claim: the pair's own value where the pair specifies it,
\* the base connection-line value otherwise
EffectiveStyle(pair) ==
  [f \in {"color", "opacity", "arcHeight", "segments", "thickness",
          "heightOffset"} |->
     IF pair[f] # undefined THEN pair[f] ELSE CONFIG.connectionLine[f]]

\* the end of an arc on hotspot hs, raised by the vertical offset of style
StyledEnd(hs, style) ==
  LET p == dotPositions[hs.dotIndex + 1]
  IN [x |-> p.x * SPACING + MAP_OFFSET_X,
      y |-> DOT_BASE_Y + hs.height \div 2 + p.lift + hs.idleLift
              + style.heightOffset,
      z |-> -p.y * SPACING]

\* the samples of the arc from a to b in style
StyledPoints(a, b, style) ==
  LET S == ClaimedSegments(style.segments)
  IN [k \in 1..(S + 1) |->
        [x |-> a.x * (S - (k - 1)) + b.x * (k - 1),
         y |-> a.y * (S - (k - 1)) + b.y * (k - 1),
         z |-> a.z * (S - (k - 1)) + b.z * (k - 1),
         den |-> S,
         bow |-> <<k - 1, S, style.arcHeight>>]]

\* the pairs that yield an arc entry, in configuration order
ResolvedPairs ==
  SelectSeq(connectionPairs,
            LAMBDA pair : /\ pair.fromId # <<>> /\ pair.toId # <<>>
                          /\ FirstMatch(hotspotData, pair.fromId) >= 0
                          /\ FirstMatch(hotspotData, pair.toId) >= 0)

\* C17: in every built and rebuilt pair arc each style field (color, opacity,
\* arc height, sampling density, thickness, vertical offset) takes effect
\* with the pair's own value when the pair specifies it and with the base
\* connection-line value otherwise.
C17_PairStyleTakesEffect ==
  dotSourceState = "ok" =>
    \A k \in 1..Len(hotspotPairLines) :
      LET entry == hotspotPairLines[k]
          style == EffectiveStyle(ResolvedPairs[k])
      IN /\ entry.material = [color |-> style.color, opacity |-> style.opacity]
         /\ entry.geometry.radius = Max(1, style.thickness)
         /\ entry.geometry.points =
              StyledPoints(StyledEnd(hotspotData[entry.fromIndex + 1], style),
                           StyledEnd(hotspotData[entry.toIndex + 1], style),
                           style)
MarkerBuilt == hotspotMeshes # <<>>

\* the value each numeric preset field takes when no preset defines it
HardDefault ==
  [topScale |-> 1000, bottomScale |-> 1000, heightScale |-> 1000,
   radialSegments |-> hotspotRadialSegments,
   domeHeightRatio |-> domeHeightRatioDefault,
   domeSegments |-> domeSegmentsDefault,
   bodyHeightRatio |-> 640, bodyTopScale |-> 420, bodyBottomScale |-> 1000,
   ringScale |-> 1250, ringThickness |-> 140, ringOffset |-> 80,
   tier1HeightRatio |-> 440, tier2HeightRatio |-> 330,
   tier1RadiusScale |-> 1000, tier2RadiusScale |-> 680,
   tipRadiusScale |-> 340]

Defines(p, f) == IF f = "geometry" THEN p[f] # noName ELSE p[f] # undefined

LayoutActive ==
  IF CONFIG.layout.active = noName THEN "classic" ELSE CONFIG.layout.active

HasPreset(name) == name \in DOMAIN CONFIG.layout.presets

\* field f looked up in the active preset, then in classic, then defaulted
ChainValue(f) ==
  IF HasPreset(LayoutActive) /\ Defines(CONFIG.layout.presets[LayoutActive], f)
  THEN CONFIG.layout.presets[LayoutActive][f]
  ELSE IF HasPreset("classic") /\ Defines(CONFIG.layout.presets["classic"], f)
  THEN CONFIG.layout.presets["classic"][f]
  ELSE IF f = "geometry" THEN noName ELSE HardDefault[f]

\* field f looked up in the one preset that is chosen as a whole (the active
\* preset if it exists, else classic if it exists), then defaulted
WholeValue(f) ==
  LET chosen == IF HasPreset(LayoutActive) THEN LayoutActive ELSE "classic"
  IN IF HasPreset(chosen) /\ Defines(CONFIG.layout.presets[chosen], f)
     THEN CONFIG.layout.presets[chosen][f]
     ELSE IF f = "geometry" THEN noName ELSE HardDefault[f]

BuiltFrom(preset) ==
  \A k \in 1..Len(hotspotMeshes) :
    /\ hotspotMeshes[k].geometry = MarkerFromPreset(preset).geometry
    /\ hotspotMeshes[k].hotspotHeight =
         MarkerFromPreset(preset).hotspotHeight \div 1000

\* C18 (as stated): every marker is the solid built from the preset fields
\* resolved one by one in the order active preset, classic preset, hard
\* default, whatever the active name and the presets are.
C18_FieldFallbackChain ==
  BuiltFrom([f \in DOMAIN EmptyPreset |-> ChainValue(f)])

\* C18 (amended): every marker is the solid built from the fields of one
\* preset chosen as a whole (the active preset if it exists, else classic if
\* it exists, else the empty preset), each field the chosen preset lacks
\* taking its hard default; a solid is built whatever the active name and the
\* presets are.
C18_PresetThenDefaults ==
  BuiltFrom([f \in DOMAIN EmptyPreset |-> WholeValue(f)])

\* a marker was built while the active preset lacks a field classic defines
C18_Witness ==
  /\ MarkerBuilt
  /\ CONFIG.layout.active = "tower"
  /\ HasPreset("tower") /\ HasPreset("classic")
  /\ CONFIG.layout.presets["tower"].topScale = undefined
  /\ CONFIG.layout.presets["classic"].topScale # undefined
  /\ CONFIG.layout.presets["tower"].geometry = "crystal"

\* the height buildHotspotGeometryFromLayout passes to the factory
RequestedHeight ==
  Max(80, MulQ(baseHeight, WholeValue("heightScale"), 1000))

RECURSIVE SumRise(_)
SumRise(parts) ==
  IF parts = <<>> THEN 0 ELSE Head(parts).rise + SumRise(Tail(parts))

IsStacked(part) == part.kind \in {"cylinder", "sphere", "cone"}

\* the parts a factory stacks along the axis: cylinder and dome, body and
\* tip, the two tiers and the tip
Stacked(geometry) == SelectSeq(geometry, IsStacked)

\* C19: in every family and for every preset ratio, the heights of the parts
\* the factory stacks add up to the requested marker height.
C19_AssembledHeight ==
  \A k \in 1..Len(hotspotMeshes) :
    SumRise(Stacked(hotspotMeshes[k].geometry)) = RequestedHeight

IsSolid(part) == part.kind \in {"cylinder", "cone", "sphere", "torus"}

AllPositive(seq) == \A i \in 1..Len(seq) : seq[i] > 0

\* C20: for every preset, zero and negative scales, ratios and ring
\* parameters included, every radius and every height passed to a cylinder,
\* cone, dome sphere or torus is strictly positive.
C20_PositiveDimensions ==
  \A k \in 1..Len(hotspotMeshes) :
    \A i \in 1..Len(hotspotMeshes[k].geometry) :
      LET part == hotspotMeshes[k].geometry[i]
      IN IsSolid(part) => AllPositive(part.radii) /\ AllPositive(part.heights)

\* C21: with maxLift >= 0 and easing and falloff between 0 and 1, every
\* dot's lift and targetLift are >= 0 in every reachable state.
C21_LiftsNeverNegative ==
  \A k \in 1..Len(dotPositions) :
    dotPositions[k].lift >= 0 /\ dotPositions[k].targetLift >= 0

\* a dot that was raised by a hover is on its way down after the release,
\* its target already below its lift
C21_Witness ==
  /\ hoveredInstanceId = null /\ liftActive /\ missStreak >= 1
  /\ \E k \in 1..Len(dotPositions) :
       /\ dotPositions[k].lift > 0
       /\ dotPositions[k].targetLift < dotPositions[k].lift

\* every record has a dot, and every back-reference points at a record that
\* is bound to the dot holding it
BackReferencesValid ==
  /\ \A k \in 1..Len(hotspotData) :
       /\ hotspotData[k].dotIndex \in 0..(Len(dotPositions) - 1)
       /\ dotPositions[hotspotData[k].dotIndex + 1].isHotspot
  /\ \A d \in 1..Len(dotPositions) :
       dotPositions[d].hotspotIndex >= 0 =>
         /\ dotPositions[d].hotspotIndex < Len(hotspotData)
         /\ hotspotData[dotPositions[d].hotspotIndex + 1].dotIndex = d - 1

\* the registry index of the last record bound to the dot of record k
LastBoundTo(k) ==
  CHOOSE j \in 1..Len(hotspotData) :
    /\ hotspotData[j].dotIndex = hotspotData[k].dotIndex
    /\ \A i \in 1..Len(hotspotData) :
         hotspotData[i].dotIndex = hotspotData[k].dotIndex => i <= j

\* C22 (as stated): after the bind pass every record has one valid dotIndex,
\* the dot there has isHotspot set and hotspotIndex equal to the record's
\* registry index, and every dot with hotspotIndex k >= 0 is the dotIndex of
\* record k, also when records share their nearest dot.
C22_MutualBackReferences ==
  /\ BackReferencesValid
  /\ \A k \in 1..Len(hotspotData) :
       dotPositions[hotspotData[k].dotIndex + 1].hotspotIndex = k - 1

\* C22 (amended): after the bind pass every record has one valid dotIndex,
\* the dot there has isHotspot set and hotspotIndex equal to the registry
\* index of the last record bound to that dot (the record's own index when no
\* later record shares the dot), every dot with hotspotIndex k >= 0 is the
\* dotIndex of record k, and a dot with hotspotIndex -1 is no record's dot.
C22_LastBoundOwnsDot ==
  /\ BackReferencesValid
  /\ \A k \in 1..Len(hotspotData) :
       dotPositions[hotspotData[k].dotIndex + 1].hotspotIndex =
         LastBoundTo(k) - 1
  /\ \A d \in 1..Len(dotPositions) :
       dotPositions[d].hotspotIndex = -1 =>
         /\ ~dotPositions[d].isHotspot
         /\ \A k \in 1..Len(hotspotData) : hotspotData[k].dotIndex # d - 1

\* the bind pass has bound two records to one dot and a third to another
C22_Witness ==
  /\ dotMesh /\ Len(hotspotData) = 3
  /\ hotspotData[1].dotIndex = hotspotData[3].dotIndex
  /\ hotspotData[2].dotIndex # hotspotData[1].dotIndex

\* the instance transforms of the mesh of a type group
SlotsOf(type) ==
  LET g == CHOOSE g \in 1..Len(hotspotMeshes) : hotspotMeshes[g].type = type
  IN hotspotMeshes[g].matrices

\* C23: after every tick, ticks that skip the transform recompute included,
\* each hotspot's instance transform in its (type group, slot) is the position
\* derived from its dot's current (x, y, lift) plus its current idleLift, and
\* no two hotspots share a (type group, slot) pair.
C23_TransformsTrackDots ==
  /\ \A k \in 1..Len(hotspotData) :
       LET hs == hotspotData[k]
           p == dotPositions[hs.dotIndex + 1]
       IN /\ \E g \in 1..Len(hotspotMeshes) : hotspotMeshes[g].type = hs.meshType
          /\ hs.meshInstanceId + 1 \in 1..Len(SlotsOf(hs.meshType))
          /\ SlotsOf(hs.meshType)[hs.meshInstanceId + 1] =
               [x |-> getMapWorldX(p.x),
                y |-> getCylinderCenterY(hs.height, p.lift + hs.idleLift),
                z |-> -p.y * SPACING]
  /\ \A j, k \in 1..Len(hotspotData) :
       (hotspotData[j].meshType = hotspotData[k].meshType
          /\ hotspotData[j].meshInstanceId = hotspotData[k].meshInstanceId)
         => j = k

\* the latest ticks skipped the recompute (the engine is quiescent, idle and
\* glow are disabled) while the dot of a hotspot keeps a lift
C23_Witness ==
  /\ dotMesh /\ ~liftActive /\ hoveredInstanceId = null
  /\ ~CONFIG.idleEnabled /\ ~CONFIG.glowEnabled
  /\ missStreak = MaxCooldownFrames
  /\ \E k \in 1..Len(hotspotData) :
       dotPositions[hotspotData[k].dotIndex + 1].lift > 0

\* the hover state at the end of the hover step of a tick
HoverStep ==
  handleHover(mouse, hoveredInstanceId, hoverCooldown, liftActive,
              dotPositions, CONFIG, dotMesh /\ hoverProxyMesh)

\* C24: at the end of every tick, a cleared lift-active flag means that no
\* dot is hovered and every dot's |targetLift - lift| is at or under the
\* threshold; and whenever a dot is hovered at the end of a tick's hover step
\* the lift-active flag is set.
C24_QuiescentOnlyWhenSettled ==
  /\ [](~liftActive => hoveredInstanceId = null /\ Settled(dotPositions))
  /\ [][Tick => (HoverStep.hovered # null => HoverStep.liftActive)]_vars
  /\ [][(Tick /\ hoveredInstanceId' # null) => liftActive']_vars

\* the engine went quiescent after a release with a dot resting exactly one
\* threshold from its target
C24_Witness ==
  /\ dotMesh /\ ~liftActive /\ lastHit = null /\ missStreak >= 1
  /\ \E k \in 1..Len(dotPositions) :
       /\ dotPositions[k].lift > 0
       /\ Abs(dotPositions[k].targetLift - dotPositions[k].lift) = threshold

====
